---- MODULE Spec2Model ----
(***************************************************************************)
(* Model of mcp_clickhouse/mcp_server.py: the three tools list_databases,  *)
(* list_tables and run_select_query, the client factory create_db_client,  *)
(* the dialect/normalising helper execute_query and get_table_info.        *)
(*                                                                         *)
(* Python values are modelled by tagged records so that a string, a dict   *)
(* and a list stay distinguishable:                                        *)
(*   [t |-> "str",   s |-> "orders"]             a str                     *)
(*   [t |-> "text",  s |-> <<fragment, ...>>]    a str built by an f-string*)
(*   [t |-> "dict",  kv |-> <<<<k, v>>, ...>>]   a dict, insertion ordered *)
(*   [t |-> "tuple", vals |-> <<v, ...>>]        a driver row tuple        *)
(*   [t |-> "list",  items |-> <<v, ...>>]       a list                    *)
(*   [t |-> "table", database, name, columns, create_table_query]          *)
(*                                               the dict of get_table_info*)
(*   [t |-> "error", error |-> <<fragment, ...>>] the dict {"error": msg}  *)
(* Message texts are sequences of fragments; concatenation is \o.          *)
(***************************************************************************)
EXTENDS Integers, Sequences, FiniteSets, TLC

(* ---------------------------- bounds ---------------------------------- *)
NCalls    == 2      \* concurrent tool invocations
MaxTables == 3      \* tables in the database "shop"
MaxCols   == 2      \* columns of the result set of a caller's query
MaxRows   == 2      \* rows of the result set of a caller's query

Calls == 1..NCalls

(* ------------------------ Python value helpers ------------------------ *)
PyNone == "<None>"

Str(s)   == [t |-> "str", s |-> s]
Dict(kv) == [t |-> "dict", kv |-> kv]
List(xs) == [t |-> "list", items |-> xs]
Tuple(v) == [t |-> "tuple", vals |-> v]
NoneVal  == [t |-> "none"]
ErrorDict(msg) == [t |-> "error", error |-> msg]

Raise(msg)  == [exc |-> TRUE, msg |-> msg]
Return(val) == [exc |-> FALSE, val |-> val]

\* (variant: the first assignment of a key wins, as with dict.setdefault)
DictSetKeepFirst(kv, k, v) ==
    IF \E i \in 1..Len(kv) : kv[i][1] = k THEN kv ELSE Append(kv, <<k, v>>)

\* row_dict[col_name] = value: a dict keeps the position of the first
\* assignment of a key and the value of the last one.
DictSet(kv, k, v) ==
    IF \E i \in 1..Len(kv) : kv[i][1] = k
    THEN [i \in 1..Len(kv) |-> IF kv[i][1] = k THEN <<k, v>> ELSE kv[i]]
    ELSE Append(kv, <<k, v>>)

DictHas(kv, k) == \E i \in 1..Len(kv) : kv[i][1] = k

DictGet(kv, k) == kv[CHOOSE i \in 1..Len(kv) : kv[i][1] = k][2]

RECURSIVE RowDictFrom(_, _, _, _)
RowDictFrom(column_names, row, i, row_dict) ==
    IF i > Len(column_names) THEN row_dict
    ELSE \* (the singleton set makes TLC evaluate the updated dict once)
         CHOOSE d \in {RowDictFrom(column_names, row, i + 1, updated) :
                          updated \in {DictSet(row_dict, column_names[i], row[i])}} : TRUE

\* the inner loop of execute_query: for i, col_name in enumerate(column_names)
RowDict(column_names, row) == Dict(RowDictFrom(column_names, row, 1, <<>>))

\* the outer loop of execute_query: one row_dict per result row, in order
NormalizeRows(column_names, result_rows) ==
    List([j \in 1..Len(result_rows) |-> RowDict(column_names, result_rows[j])])

RECURSIVE DictReprFrom(_, _)
DictReprFrom(kv, i) ==
    IF i > Len(kv) THEN <<>>
    ELSE (IF i > 1 THEN <<", ">> ELSE <<>>)
         \o <<"'", kv[i][1], "': '", kv[i][2], "'">>
         \o DictReprFrom(kv, i + 1)

\* what an f-string interpolates for {table}: the str itself, or the repr of
\* a dict
PyFormat(v) ==
    IF v.t = "str" THEN <<v.s>>
    ELSE IF v.t = "dict" THEN <<"{">> \o DictReprFrom(v.kv, 1) \o <<"}">>
    ELSE <<"<", v.t, ">">>

\* `if like:` -- None and the empty string are falsy
Truthy(like) == like # PyNone /\ like # ""

(* ----------------------------- state ---------------------------------- *)
VARIABLES
    config,       \* the module-level config dict (loaded once at import)
    requests,     \* the tool calls (tool and arguments) the orchestrator may make
    dbTables,     \* backend: table names of database "shop", catalog order
    badDescribe,  \* backend: tables whose schema query fails
    badCreate,    \* backend: tables whose create-statement query fails
    answer,       \* backend: result set of the caller's SELECT
    nextHandle,   \* number of client objects the drivers have handed out
    aborted,      \* postgres connections whose transaction is aborted
    pc,           \* per call: "idle", "create", "query", "tables", "done", "raised"
    args,         \* per call: tool name and arguments
    client,       \* per call: local variable client (0: unbound)
    work,         \* per call: locals table_names and tables of list_tables
    result,       \* per call: the value returned (or the escaped exception)
    log,          \* per call: the statements sent to the backend, in order
    caught,       \* per call: the tool's except clause has run
    attempts,     \* per call: number of calls of create_db_client
    dials         \* per call: number of connections asked of a driver

world == <<config, requests, dbTables, badDescribe, badCreate, answer>>
vars  == <<config, requests, dbTables, badDescribe, badCreate, answer, nextHandle,
           aborted, pc, args, client, work, result, log, caught, attempts, dials>>

(* --------------------------- configuration ---------------------------- *)
ConfigTypes == {"clickhouse", "postgres", "Postgres", "mysql", "MySQL", PyNone}

\* str.lower() on the configured backend kinds
Lower(s) ==
    CASE s = "Postgres" -> "postgres"
      [] s = "MySQL"    -> "mysql"
      [] OTHER          -> s

\* config["db"].get("type", "clickhouse").lower()
DbTypeOf(cfg) ==
    Lower(IF cfg.db.type = PyNone THEN "clickhouse" ELSE cfg.db.type)

(* ------------------------------ backend ------------------------------- *)
TableUniverse == <<"orders", "order_items", "users", "events">>
DatabaseNames == <<"shop", "empty">>
Likes         == {PyNone, "", "ord%"}
UserQueries   == {"SELECT 1 AS x", "DELETE FROM t"}
ColNames      == {"x", "y"}
Cells         == {1, 2}

RECURSIVE SelectSeq2(_, _, _)
SelectSeq2(seq, keep, i) ==
    IF i > Len(seq) THEN <<>>
    ELSE (IF seq[i] \in keep THEN <<seq[i]>> ELSE <<>>) \o SelectSeq2(seq, keep, i + 1)

\* the elements of seq that are in keep, in the order of seq
Restrict(seq, keep) == SelectSeq2(seq, keep, 1)

Range(seq) == {seq[i] : i \in 1..Len(seq)}

FieldsOf(n) ==
    CASE n = "orders"      -> <<"id", "total">>
      [] n = "order_items" -> <<"id">>
      [] n = "users"       -> <<"id", "name", "email">>
      [] OTHER             -> <<"ts">>

\* SQL LIKE of the backend on the table names of the model
LikeMatches(n, pattern) ==
    CASE pattern = "ord%" -> n \in {"orders", "order_items"}
      [] pattern = "%"    -> TRUE
      [] OTHER            -> n = pattern

NoLike == "<no LIKE clause>"

TablesOf(db) == IF db = "shop" THEN dbTables ELSE <<>>

Listed(db, like) ==
    Restrict(TablesOf(db),
             {n \in Range(TablesOf(db)) : like = NoLike \/ LikeMatches(n, like)})

\* the table of db a statement's interpolated name addresses, if any
Addressed(db, arg) == {n \in Range(TablesOf(db)) : arg = <<n>>}

Failed(err)       == [ok |-> FALSE, err |-> err]
Rows(cols, rows)  == [ok |-> TRUE, column_names |-> cols, result_rows |-> rows]

\* What the backend answers to a statement.  fail: the backend (or the
\* network) fails this statement for a reason of its own.
BackendEval(db_type, q, fail) ==
    IF fail THEN Failed(<<"backend failure">>)
    ELSE CASE q.op = "databases" ->
                Rows(<<IF db_type = "postgres" THEN "datname" ELSE "name">>,
                     [i \in 1..Len(DatabaseNames) |-> <<DatabaseNames[i]>>])
           [] q.op = "tables" ->
                LET ns == Listed(q.db, q.like)
                IN  Rows(<<IF db_type = "postgres" THEN "table_name" ELSE "name">>,
                         [i \in 1..Len(ns) |-> <<ns[i]>>])
           [] q.op = "describe" ->
                LET hit == Addressed(q.db, q.arg)
                IN  IF hit = {}
                    THEN IF db_type = "postgres"
                         THEN Rows(<<"name", "type", "default_kind", "default_expression">>, <<>>)
                         ELSE Failed(<<"unknown table ">> \o q.arg)
                    ELSE LET n == CHOOSE x \in hit : TRUE
                             f == FieldsOf(n)
                         IN  IF n \in badDescribe
                             THEN Failed(<<"cannot describe ", n>>)
                             ELSE IF db_type = "postgres"
                                  THEN Rows(<<"name", "type", "default_kind", "default_expression">>,
                                            [i \in 1..Len(f) |-> <<f[i], "text", "YES", "NULL">>])
                                  ELSE Rows(<<"name", "type">>,
                                            [i \in 1..Len(f) |-> <<f[i], "String">>])
           [] q.op = "create" ->
                LET hit == Addressed(q.db, q.arg)
                IN  IF hit = {} THEN Failed(<<"unknown table ">> \o q.arg)
                    ELSE LET n == CHOOSE x \in hit : TRUE
                         IN  IF n \in badCreate
                             THEN Failed(<<"cannot show create ", n>>)
                             ELSE Rows(<<IF db_type = "postgres" THEN "pg_get_tabledef"
                                         ELSE "statement">>,
                                       << <<"CREATE TABLE">> >>)
           [] OTHER -> Rows(answer.column_names, answer.result_rows)

(* ------------------------------ drivers ------------------------------- *)
\* a statement: the SQL template (op) and what the f-string interpolates
Stmt(op, db, arg, like) == [op |-> op, db |-> db, arg |-> arg, like |-> like]

\* one statement on the wire: the client object it went through, the driver
\* entry point, and whether read-only is enforced for this execution
\* (settings={"readonly": 1} of clickhouse_connect's Client.query)
Sent(h, q, api, enforced) ==
    [handle |-> h, query |-> q, api |-> api, enforced |-> enforced]

Outcome(r, sent, aborts) == [r |-> r, sent |-> sent, aborts |-> aborts]

RECURSIVE JoinLines(_, _)
JoinLines(rows, i) ==
    IF i > Len(rows) THEN <<>>
    ELSE (IF i > 1 THEN <<"\n">> ELSE <<>>) \o <<rows[i][1]>> \o JoinLines(rows, i + 1)

\* Client.command of clickhouse_connect: a single str, or a sequence of str
CommandResult(ans, shape) ==
    IF shape = "str"
    THEN [t |-> "text", s |-> JoinLines(ans.result_rows, 1)]
    ELSE List([i \in 1..Len(ans.result_rows) |-> Str(ans.result_rows[i][1])])

\* (variant: the non-readonly postgres branch returns row dicts)
FetchAllNormalized(ans) == NormalizeRows(ans.column_names, ans.result_rows)

\* cursor.fetchall() of psycopg2: the rows as tuples
FetchAll(ans) == List([i \in 1..Len(ans.result_rows) |-> Tuple(ans.result_rows[i])])

(* -------------------------- create_db_client -------------------------- *)
\* (variant: one client object shared by every call, as a module-level
\* connection would be)
ConnectShared(driver, connects, fresh) ==
    [r |-> IF connects THEN Return(1) ELSE Raise(<<driver, ": cannot connect">>),
     dialled |-> TRUE]

\* a driver's connect function (clickhouse_connect.get_client,
\* psycopg2.connect): a new client object, or an exception.
\* connects: the driver manages to connect; fresh: the new client object
Connect(driver, connects, fresh) ==
    [r |-> IF connects THEN Return(fresh) ELSE Raise(<<driver, ": cannot connect">>),
     dialled |-> TRUE]

\* (variant: any kind that is not postgres is taken for clickhouse)
CreateDbClientDefaulting(db_type, connects, fresh) ==
    IF db_type = "postgres"
    THEN [r |-> IF connects THEN Return(fresh) ELSE Raise(<<"psycopg2", ": cannot connect">>),
          dialled |-> TRUE]
    ELSE [r |-> IF connects THEN Return(fresh)
                ELSE Raise(<<"clickhouse_connect", ": cannot connect">>),
          dialled |-> TRUE]

CreateDbClient(db_type, connects, fresh) ==
    IF db_type = "clickhouse"
    THEN Connect("clickhouse_connect", connects, fresh)
    ELSE IF db_type = "postgres"
    THEN Connect("psycopg2", connects, fresh)
    ELSE [r |-> Raise(<<"Unsupported database type: ", db_type>>), dialled |-> FALSE]

(* ---------------------------- execute_query --------------------------- *)
QueryError(err) == Raise(<<"Query execution error: ">> \o err)

ExecuteQuery(db_type, h, inAborted, query, readonly, fail, shape) ==
    LET ans == BackendEval(db_type, query, fail)
    IN  IF db_type = "clickhouse"
        THEN IF readonly
             THEN Outcome(IF ans.ok
                          THEN Return(NormalizeRows(ans.column_names, ans.result_rows))
                          ELSE QueryError(ans.err),
                          <<Sent(h, query, "query", TRUE)>>, FALSE)
             ELSE Outcome(IF ans.ok THEN Return(CommandResult(ans, shape))
                          ELSE QueryError(ans.err),
                          <<Sent(h, query, "command", FALSE)>>, FALSE)
        ELSE IF db_type = "postgres"
        THEN IF h \in inAborted
             THEN Outcome(QueryError(<<"current transaction is aborted">>),
                          <<Sent(h, query, "execute", FALSE)>>, FALSE)
             ELSE IF ~ans.ok
             THEN Outcome(QueryError(ans.err),
                          <<Sent(h, query, "execute", FALSE)>>, TRUE)
             ELSE Outcome(IF readonly
                          THEN Return(NormalizeRows(ans.column_names, ans.result_rows))
                          ELSE Return(FetchAll(ans)),
                          <<Sent(h, query, "execute", FALSE)>>, FALSE)
        ELSE Outcome(Return(NoneVal), <<>>, FALSE)

(* ---------------------------- get_table_info -------------------------- *)
\* (variant: the two query results are stored under each other's key)
TableDescriptorSwapped(db_type, database, table, columns, create_table_result) ==
    [t |-> "table",
     database |-> database,
     name |-> table,
     columns |-> create_table_result,
     create_table_query |-> columns]

\* the dict get_table_info returns
TableDescriptor(db_type, database, table, columns, create_table_result) ==
    [t |-> "table",
     database |-> database,
     name |-> table,
     columns |-> columns,
     create_table_query |->
         IF db_type = "postgres" THEN create_table_result.items[1]
         ELSE create_table_result]

GetTableInfo(db_type, h, inAborted, database, table) ==
    IF db_type \notin {"clickhouse", "postgres"}
    THEN Outcome(ErrorDict(<<"local variable 'schema_query' referenced before assignment">>),
                 <<>>, FALSE)
    ELSE
    LET schema_query       == Stmt("describe", database, PyFormat(table), NoLike)
        create_table_query == Stmt("create", database, PyFormat(table), NoLike)
        c == ExecuteQuery(db_type, h, inAborted, schema_query, TRUE, FALSE, "str")
    IN  IF c.r.exc THEN Outcome(ErrorDict(c.r.msg), c.sent, c.aborts)
        ELSE
        LET d == ExecuteQuery(db_type, h, inAborted, create_table_query, TRUE, FALSE, "str")
        IN  IF d.r.exc THEN Outcome(ErrorDict(d.r.msg), c.sent \o d.sent, d.aborts)
            ELSE IF db_type = "postgres" /\ Len(d.r.val.items) = 0
            THEN Outcome(ErrorDict(<<"list index out of range">>), c.sent \o d.sent, FALSE)
            ELSE Outcome(TableDescriptor(db_type, database, table, c.r.val, d.r.val),
                         c.sent \o d.sent, FALSE)

(* ------------------------- the tools' except clauses ------------------ *)
\* (variant: the except clause lets the exception through)
RunSelectQueryReraise(msg) == Raise(msg)

ListDatabasesExcept(msg)  == Return(ErrorDict(msg))
ListTablesExcept(msg)     == Return(ErrorDict(msg))
RunSelectQueryExcept(msg) == Return([t |-> "text", s |-> <<"error running query: ">> \o msg])

\* try: ... except Exception as err: ... around the whole body of each tool
ToolBoundary(tool, r) ==
    IF ~r.exc THEN r
    ELSE CASE tool = "list_databases" -> ListDatabasesExcept(r.msg)
           [] tool = "list_tables"    -> ListTablesExcept(r.msg)
           [] OTHER                   -> RunSelectQueryExcept(r.msg)

\* the call ends: a value is returned, or an exception leaves the tool
Finish(p, r) ==
    LET out == ToolBoundary(args[p].tool, r)
    IN  /\ pc' = [pc EXCEPT ![p] = IF out.exc THEN "raised" ELSE "done"]
        /\ caught' = [caught EXCEPT ![p] = r.exc]
        /\ result' = [result EXCEPT ![p] =
                         IF out.exc THEN [t |-> "exception", error |-> out.msg]
                         ELSE out.val]

(* ------------------------------- Init --------------------------------- *)
SeqsUpTo(S, lo, hi) == UNION {[1..n -> S] : n \in lo..hi}

ResultSets ==
    UNION {{[column_names |-> c, result_rows |-> r] :
               r \in SeqsUpTo([1..Len(c) -> Cells], 0, MaxRows)} :
           c \in SeqsUpTo(ColNames, 1, MaxCols)}

TableSets == {S \in SUBSET Range(TableUniverse) : Cardinality(S) <= MaxTables}

NoArgs == [tool |-> "", database |-> "", like |-> PyNone, query |-> ""]
NoWork == [table_names |-> <<>>, tables |-> <<>>]

InitCalls ==
    /\ nextHandle = 0
    /\ aborted = {}
    /\ pc = [p \in Calls |-> "idle"]
    /\ args = [p \in Calls |-> NoArgs]
    /\ client = [p \in Calls |-> 0]
    /\ work = [p \in Calls |-> NoWork]
    /\ result = [p \in Calls |-> NoneVal]
    /\ log = [p \in Calls |-> <<>>]
    /\ caught = [p \in Calls |-> FALSE]
    /\ attempts = [p \in Calls |-> 0]
    /\ dials = [p \in Calls |-> 0]

InitConfig == config \in {[db |-> [type |-> ty]] : ty \in ConfigTypes}

ListDatabasesCall == [NoArgs EXCEPT !.tool = "list_databases"]
ListTablesCall(database, like) ==
    [NoArgs EXCEPT !.tool = "list_tables", !.database = database, !.like = like]
RunSelectQueryCall(query) ==
    [NoArgs EXCEPT !.tool = "run_select_query", !.query = query]

ListTablesCalls ==
    {ListTablesCall(d, l) : d \in Range(DatabaseNames), l \in Likes}
RunSelectQueryCalls == {RunSelectQueryCall(q) : q \in UserQueries}

\* concurrent calls of every tool, a small backend
Init ==
    /\ InitConfig
    /\ requests = {ListDatabasesCall, ListTablesCall("shop", PyNone),
                   RunSelectQueryCall("SELECT 1 AS x")}
    /\ dbTables = <<"orders", "users">>
    /\ badDescribe \in {{}, {"orders"}}
    /\ badCreate = {}
    /\ answer = [column_names |-> <<"x">>, result_rows |-> << <<1>> >>]
    /\ InitCalls

\* one call of any tool with any arguments, against every catalog of at most
\* MaxTables tables
InitTools ==
    /\ InitConfig
    /\ requests = {ListDatabasesCall} \cup ListTablesCalls \cup RunSelectQueryCalls
    /\ \E S \in TableSets :
          /\ dbTables = Restrict(TableUniverse, S)
          /\ badDescribe \in SUBSET S
          /\ badCreate \in SUBSET S
    /\ answer = [column_names |-> <<"x">>, result_rows |-> << <<1>> >>]
    /\ InitCalls

\* one call of run_select_query against every result set within
\* MaxCols x MaxRows
InitSelect ==
    /\ InitConfig
    /\ requests = RunSelectQueryCalls
    /\ dbTables = <<"orders", "users">>
    /\ badDescribe = {}
    /\ badCreate = {}
    /\ answer \in ResultSets
    /\ InitCalls

(* ------------------------------ actions ------------------------------- *)
DbType == DbTypeOf(config)

\* the framework dispatches a tool call
Invoke(p) ==
    /\ pc[p] = "idle"
    /\ \E a \in requests :
          /\ pc' = [pc EXCEPT ![p] = "create"]
          /\ args' = [args EXCEPT ![p] = a]
    /\ UNCHANGED <<world, nextHandle, aborted, client, work, result, log, caught,
                   attempts, dials>>

\* client = create_db_client(), the first statement of every tool
CreateClient(p) ==
    /\ pc[p] = "create"
    /\ \E connects \in BOOLEAN :
          LET c == CreateDbClient(DbType, connects, nextHandle + 1)
          IN  /\ attempts' = [attempts EXCEPT ![p] = @ + 1]
              /\ dials' = [dials EXCEPT ![p] = @ + (IF c.dialled THEN 1 ELSE 0)]
              /\ IF c.r.exc
                 THEN /\ Finish(p, c.r)
                      /\ UNCHANGED <<client, nextHandle>>
                 ELSE /\ client' = [client EXCEPT ![p] = c.r.val]
                      /\ nextHandle' = nextHandle + 1
                      /\ pc' = [pc EXCEPT ![p] = "query"]
                      /\ UNCHANGED <<result, caught>>
    /\ UNCHANGED <<world, aborted, args, work, log>>

\* the effects of one execute_query or get_table_info on the connection
Effects(p, o) ==
    /\ log' = [log EXCEPT ![p] = @ \o o.sent]
    /\ aborted' = IF o.aborts THEN aborted \cup {client[p]} ELSE aborted

\* the rest of list_databases (lines after create_db_client)
ListDatabases(p) ==
    /\ pc[p] = "query"
    /\ args[p].tool = "list_databases"
    /\ \E fail \in BOOLEAN, shape \in {"str", "list"} :
          LET query == Stmt("databases", "", <<>>, NoLike)
              o == IF DbType \in {"clickhouse", "postgres"}
                   THEN ExecuteQuery(DbType, client[p], aborted, query, FALSE, fail, shape)
                   ELSE Outcome(Raise(<<"local variable 'query' referenced before assignment">>),
                                <<>>, FALSE)
          IN  /\ Effects(p, o)
              /\ Finish(p, o.r)
    /\ UNCHANGED <<world, nextHandle, args, client, work, attempts, dials>>

\* the rest of run_select_query
RunSelectQuery(p) ==
    /\ pc[p] = "query"
    /\ args[p].tool = "run_select_query"
    /\ \E fail \in BOOLEAN :
          LET query == Stmt("user", "", <<args[p].query>>, NoLike)
              o == ExecuteQuery(DbType, client[p], aborted, query, TRUE, fail, "str")
          IN  /\ Effects(p, o)
              /\ Finish(p, IF ~o.r.exc /\ o.r.val.t # "list"
                           THEN Raise(<<"object of type 'NoneType' has no len()">>)
                           ELSE o.r)
    /\ UNCHANGED <<world, nextHandle, args, client, work, attempts, dials>>

(* ------------------------------ list_tables --------------------------- *)
\* SHOW TABLES FROM {database} [LIKE '{like}'] and its postgres counterpart
ListTablesQuery(database, like) ==
    Stmt("tables", database, <<>>, IF Truthy(like) THEN like ELSE NoLike)

\* result.split() of a str result: the fragments that are not whitespace
SplitText(s) == Restrict(s, Range(s) \ {"\n", " ", ""})

\* (variant: the first row of the listing is taken for a header)
TableNamesSkipFirst(db_type, res) ==
    Return([i \in 1..(Len(res.items) - 1) |->
               IF db_type = "clickhouse" THEN res.items[i + 1]
               ELSE Str(DictGet(res.items[i + 1].kv, "table_name"))])

\* table_names, from the result of the listing query
TableNames(db_type, res) ==
    IF db_type = "clickhouse"
    THEN IF res.t = "text"
         THEN LET w == SplitText(res.s)
              IN  Return([i \in 1..Len(w) |-> Str(w[i])])
         ELSE Return(res.items)
    ELSE IF \E i \in 1..Len(res.items) : ~DictHas(res.items[i].kv, "table_name")
    THEN Raise(<<"'table_name'">>)
    ELSE Return([i \in 1..Len(res.items) |->
                    Str(DictGet(res.items[i].kv, "table_name"))])

\* list_tables from the listing query to the start of the loop over
\* table_names (an empty table_names returns at once)
ListTables(p) ==
    /\ pc[p] = "query"
    /\ args[p].tool = "list_tables"
    /\ \E fail \in BOOLEAN :
       \E o \in {ExecuteQuery(DbType, client[p], aborted,
                              ListTablesQuery(args[p].database, args[p].like),
                              TRUE, fail, "str")} :
          LET tn == IF o.r.exc THEN o.r
                    ELSE IF o.r.val.t = "none"
                    THEN Raise(<<"'NoneType' object is not iterable">>)
                    ELSE TableNames(DbType, o.r.val)
          IN  /\ Effects(p, o)
              /\ IF tn.exc
                 THEN Finish(p, tn) /\ UNCHANGED work
                 ELSE IF Len(tn.val) = 0
                 THEN Finish(p, Return(List(<<>>))) /\ UNCHANGED work
                 ELSE /\ work' = [work EXCEPT ![p] = [table_names |-> tn.val, tables |-> <<>>]]
                      /\ pc' = [pc EXCEPT ![p] = "tables"]
                      /\ UNCHANGED <<result, caught>>
    /\ UNCHANGED <<world, nextHandle, args, client, attempts, dials>>

\* one iteration of `for table in table_names:
\*     tables.append(get_table_info(client, database, table))`,
\* and `return tables` after the last one
TableInfo(p) ==
    /\ pc[p] = "tables"
    /\ Len(work[p].tables) < Len(work[p].table_names)
    /\ \E o \in {GetTableInfo(DbType, client[p], aborted, args[p].database,
                               work[p].table_names[Len(work[p].tables) + 1])} :
          LET ts == Append(work[p].tables, o.r)
          IN  /\ Effects(p, o)
              /\ work' = [work EXCEPT ![p].tables = ts]
              /\ IF Len(ts) = Len(work[p].table_names)
                 THEN Finish(p, Return(List(ts)))
                 ELSE UNCHANGED <<pc, result, caught>>
    /\ UNCHANGED <<world, nextHandle, args, client, attempts, dials>>

(* --------------------------- specifications --------------------------- *)
Step(p) ==
    \/ Invoke(p)
    \/ CreateClient(p)
    \/ ListDatabases(p)
    \/ ListTables(p)
    \/ TableInfo(p)
    \/ RunSelectQuery(p)

Next == \E p \in Calls : Step(p)

Spec == Init /\ [][Next]_vars

\* a single call at a time
NextOne == Step(1)

SpecTools == InitTools /\ [][NextOne]_vars

NextSelect ==
    \/ Invoke(1)
    \/ CreateClient(1)
    \/ RunSelectQuery(1)

SpecSelect == InitSelect /\ [][NextSelect]_vars

(* ------------------------------- claims ------------------------------- *)
Supported == DbType \in {"clickhouse", "postgres"}

\* the error value of a tool: {"error": msg} for list_databases and
\* list_tables, the str "error running query: ..." for run_select_query
IsErrorValue(tool, v, msg) ==
    IF tool = "run_select_query"
    THEN v.t = "text" /\ v.s = <<"error running query: ">> \o msg
    ELSE v.t = "error" /\ v.error = msg

HasErrorShape(tool, v) ==
    IF tool = "run_select_query"
    THEN v.t = "text" /\ Len(v.s) >= 1 /\ v.s[1] = "error running query: "
    ELSE v.t = "error"

\* C1: for each of the three tools, under every configuration and every
\* failure of client creation or of a query, no exception crosses the tool
\* boundary; a call that is under way can always take its next step, and a
\* call whose body failed returns the tool's error value ({error: message}
\* for list_databases and list_tables, an error string for
\* run_select_query), any other call a value that is not an error value.
C1_NoExceptionCrossesBoundary ==
    \A p \in Calls :
        /\ pc[p] # "raised"
        /\ pc[p] \in {"create", "query", "tables"} => ENABLED Step(p)
        /\ pc[p] = "done" =>
              /\ result[p].t \notin {"exception", "none"}
              /\ caught[p] <=> HasErrorShape(args[p].tool, result[p])

C1_Witness ==
    /\ pc[1] = "done" /\ caught[1] /\ client[1] # 0
    /\ args[1].tool = "list_tables"
    /\ result[1].t = "error"

\* C8: with a backend kind other than clickhouse and postgres (compared as
\* the code compares it, lower-cased) client creation fails with the message
\* "Unsupported database type: <kind>", no driver is asked for a connection,
\* no client object exists, no statement is sent, and the tool returns that
\* failure as its error value.
C8_UnsupportedBackend ==
    ~Supported =>
        /\ nextHandle = 0
        /\ \A p \in Calls :
              /\ dials[p] = 0 /\ client[p] = 0 /\ log[p] = <<>>
              /\ pc[p] \in {"idle", "create", "done"}
              /\ pc[p] = "done" =>
                    /\ attempts[p] = 1
                    /\ IsErrorValue(args[p].tool, result[p],
                                    <<"Unsupported database type: ", Lower(config.db.type)>>)

C8_Witness ==
    /\ config.db.type = "MySQL"
    /\ pc[1] = "done"
    /\ args[1].tool = "run_select_query"
    /\ result[1].s = <<"error running query: ", "Unsupported database type: ", "mysql">>

\* the database names the backend reports, as one-column rows
DatabaseRows == [i \in 1..Len(DatabaseNames) |-> <<DatabaseNames[i]>>]

ListDatabasesSucceeded(p) ==
    pc[p] = "done" /\ args[p].tool = "list_databases" /\ ~caught[p]

\* C9 (as stated): on success list_databases returns, with clickhouse, the
\* raw command result (one string or a sequence of names) and, with
\* postgres, one mapping {datname: name} per database.
C9_PostgresNormalized ==
    \A p \in Calls :
        ListDatabasesSucceeded(p) =>
            /\ DbType = "clickhouse" =>
                  \/ result[p] = [t |-> "text", s |-> <<"shop", "\n", "empty">>]
                  \/ result[p] = List(<<Str("shop"), Str("empty")>>)
            /\ DbType = "postgres" =>
                  /\ result[p].t = "list"
                  /\ Len(result[p].items) = Len(DatabaseRows)
                  /\ \A i \in 1..Len(result[p].items) :
                        result[p].items[i] = Dict(<< <<"datname", DatabaseRows[i][1]>> >>)

\* C9 (amended): on success list_databases returns the result in the shape
\* the driver gives it: with clickhouse the raw command result (one string
\* or a sequence of names), with postgres the raw row tuples of fetchall(),
\* one 1-tuple (name,) per database, in order.
C9_BackendNativeShape ==
    \A p \in Calls :
        ListDatabasesSucceeded(p) =>
            /\ DbType = "clickhouse" =>
                  \/ result[p] = [t |-> "text", s |-> <<"shop", "\n", "empty">>]
                  \/ result[p] = List(<<Str("shop"), Str("empty")>>)
            /\ DbType = "postgres" =>
                  /\ result[p].t = "list"
                  /\ Len(result[p].items) = Len(DatabaseRows)
                  /\ \A i \in 1..Len(result[p].items) :
                        result[p].items[i] = Tuple(DatabaseRows[i])

C9_Witness ==
    /\ ListDatabasesSucceeded(1)
    /\ DbType = "postgres"
    /\ result[1].items[1] = Tuple(<<"shop">>)

LogHandles(p) == {log[p][i].handle : i \in 1..Len(log[p])}

\* C10: in every interleaving of concurrent calls each call calls
\* create_db_client exactly once (never again after a failure, and a call
\* whose creation failed sends nothing), every statement of a call goes
\* through the client object that call created, no client object is used by
\* two calls, and no step changes the configuration.
C10_StateInv ==
    \A p \in Calls :
        /\ attempts[p] <= 1
        /\ pc[p] \in {"query", "tables", "done"} => attempts[p] = 1
        /\ pc[p] \in {"idle", "create"} => attempts[p] = 0 /\ log[p] = <<>>
        /\ client[p] = 0 => log[p] = <<>>
        /\ client[p] = 0 /\ pc[p] = "done" =>
              caught[p] /\ HasErrorShape(args[p].tool, result[p])
        /\ LogHandles(p) \subseteq {client[p]}
        /\ \A q \in Calls \ {p} :
              /\ client[p] # 0 => client[q] # client[p]
              /\ LogHandles(p) \cap LogHandles(q) = {}

C10_IndependentCalls == [](C10_StateInv) /\ [][config' = config]_vars

C10_Witness ==
    /\ pc[1] = "done" /\ pc[2] = "done"
    /\ args[1].tool = "list_tables" /\ args[2].tool = "list_tables"
    /\ Len(log[1]) >= 3 /\ Len(log[2]) >= 3
    /\ client[1] # client[2]

SelectSucceeded(p) ==
    pc[p] = "done" /\ args[p].tool = "run_select_query" /\ ~caught[p]

\* C2 (as stated): with either backend, every execution of the caller's
\* query by run_select_query has read-only enforcement active at the
\* session/settings level.
C2_ReadOnlyEnforced ==
    \A p \in Calls :
        \A i \in 1..Len(log[p]) :
            log[p][i].query.op = "user" => log[p][i].enforced

\* C5 (as stated): a successful run_select_query returns one Row per result
\* row, in order, and Row j holds exactly the columns c1..ck in result-set
\* order with Row j[ci] the i-th value of row j.
C5_RowsExact ==
    \A p \in Calls :
        SelectSucceeded(p) =>
            /\ result[p].t = "list"
            /\ Len(result[p].items) = Len(answer.result_rows)
            /\ \A j \in 1..Len(result[p].items) :
                  /\ result[p].items[j].t = "dict"
                  /\ result[p].items[j].kv =
                        [i \in 1..Len(answer.column_names) |->
                            <<answer.column_names[i], answer.result_rows[j][i]>>]

FirstIndex(cols, c) == CHOOSE i \in 1..Len(cols) :
                          cols[i] = c /\ \A h \in 1..(i - 1) : cols[h] # c
LastIndex(cols, c)  == CHOOSE i \in 1..Len(cols) :
                          cols[i] = c /\ \A h \in (i + 1)..Len(cols) : cols[h] # c
PairwiseDistinct(cols) ==
    \A a, b \in 1..Len(cols) : a # b => cols[a] # cols[b]

\* C5 (amended): a successful run_select_query returns one Row per result
\* row, in order; Row j holds every distinct column name exactly once,
\* ordered by first occurrence in the result set, and Row j[c] is the value
\* of the last column named c in row j.  When the column names are pairwise
\* distinct this is exactly c1..ck with Row j[ci] the i-th value of row j.
C5_RowsLastColumnWins ==
    \A p \in Calls :
        SelectSucceeded(p) =>
            LET cols == answer.column_names
                rows == answer.result_rows
            IN  /\ result[p].t = "list"
                /\ Len(result[p].items) = Len(rows)
                /\ \A j \in 1..Len(rows) :
                      LET kv == result[p].items[j].kv
                      IN  /\ result[p].items[j].t = "dict"
                          /\ {kv[a][1] : a \in 1..Len(kv)} = Range(cols)
                          /\ \A a, b \in 1..Len(kv) :
                                a < b => FirstIndex(cols, kv[a][1]) < FirstIndex(cols, kv[b][1])
                          /\ \A a \in 1..Len(kv) :
                                kv[a][2] = rows[j][LastIndex(cols, kv[a][1])]
                          /\ PairwiseDistinct(cols) =>
                                kv = [i \in 1..Len(cols) |-> <<cols[i], rows[j][i]>>]

C5_Witness ==
    /\ SelectSucceeded(1)
    /\ answer.column_names = <<"x", "y">>
    /\ answer.result_rows = << <<1, 2>>, <<2, 2>> >>
    /\ result[1] = List(<<Dict(<< <<"x", 1>>, <<"y", 2>> >>),
                          Dict(<< <<"x", 2>>, <<"y", 2>> >>)>>)

\* the call of list_tables returned its list (client creation and the
\* listing query succeeded)
ListTablesReturned(p) ==
    pc[p] = "done" /\ args[p].tool = "list_tables" /\ ~caught[p]

\* the table names the backend reports to the call's listing query
Reported(p) ==
    Listed(args[p].database,
           IF args[p].like \in {PyNone, ""} THEN NoLike ELSE args[p].like)

RECURSIVE StmtArgsFrom(_, _, _)
StmtArgsFrom(lg, op, i) ==
    IF i > Len(lg) THEN <<>>
    ELSE (IF lg[i].query.op = op THEN <<lg[i].query.arg>> ELSE <<>>)
         \o StmtArgsFrom(lg, op, i + 1)

\* the name interpolated into each statement of kind op the call sent
StmtArgs(p, op) == StmtArgsFrom(log[p], op, 1)

\* C3 (as stated): when the describe query of exactly one of the N reported
\* tables fails (and no create-statement query fails), list_tables returns N
\* items of which exactly the one at the failing table's position is an
\* {error: message} item and every other one is a Table Descriptor.
C3_OneBadTable ==
    \A p \in Calls :
        ( /\ ListTablesReturned(p)
          /\ Cardinality({i \in 1..Len(Reported(p)) : Reported(p)[i] \in badDescribe}) = 1
          /\ \A i \in 1..Len(Reported(p)) : Reported(p)[i] \notin badCreate )
        => /\ result[p].t = "list"
           /\ Len(result[p].items) = Len(Reported(p))
           /\ \A i \in 1..Len(result[p].items) :
                 result[p].items[i].t =
                     IF Reported(p)[i] \in badDescribe THEN "error" ELSE "table"

\* C4 (as stated): with clickhouse, list_tables(database, like) extracts a
\* flat list of table name strings and returns one Table Descriptor per
\* matching table, named by that string, with its describe and create
\* statements addressed to that name.
C4_ClickhouseDescriptors ==
    \A p \in Calls :
        ( /\ DbType = "clickhouse"
          /\ ListTablesReturned(p)
          /\ \A i \in 1..Len(Reported(p)) :
                Reported(p)[i] \notin badDescribe \cup badCreate )
        => /\ result[p].t = "list"
           /\ Len(result[p].items) = Len(Reported(p))
           /\ \A i \in 1..Len(result[p].items) :
                 /\ result[p].items[i].t = "table"
                 /\ result[p].items[i].name.t = "str"
                 /\ result[p].items[i].name.s = Reported(p)[i]
           /\ StmtArgs(p, "describe") = [i \in 1..Len(Reported(p)) |-> <<Reported(p)[i]>>]
           /\ StmtArgs(p, "create") = [i \in 1..Len(Reported(p)) |-> <<Reported(p)[i]>>]

\* C6: when client creation and the listing query succeed, list_tables
\* returns a list with exactly one item (Table Descriptor or error item) per
\* reported table name, produced in the order reported: the i-th describe
\* statement sent and the i-th item are those of the i-th reported name;
\* for zero tables the list is empty and only the listing statement is sent.
C6_OneItemPerTable ==
    \A p \in Calls :
        ListTablesReturned(p) =>
            LET names == Reported(p)
                desc  == StmtArgs(p, "describe")
            IN  /\ result[p].t = "list"
                /\ Len(result[p].items) = Len(names)
                /\ Len(desc) = Len(names)
                /\ \A i \in 1..Len(names) :
                      /\ names[i] \in Range(desc[i])
                      /\ result[p].items[i].t \in {"table", "error"}
                      /\ result[p].items[i].t = "table" =>
                            names[i] \in Range(PyFormat(result[p].items[i].name))
                /\ Len(names) = 0 =>
                      /\ result[p] = List(<<>>)
                      /\ Len(log[p]) = 1 /\ log[p][1].query.op = "tables"

C6_Witness ==
    /\ ListTablesReturned(1)
    /\ Reported(1) = <<"orders", "order_items", "users">>
    /\ Len(result[1].items) = 3
    /\ result[1].items[1].t = "table" /\ result[1].items[3].t = "table"

C6_WitnessEmpty ==
    /\ ListTablesReturned(1)
    /\ args[1].database = "shop" /\ dbTables # <<>> /\ Reported(1) = <<>>
    /\ result[1] = List(<<>>)

\* C7: every Table Descriptor list_tables returns has as many columns as the
\* raw schema query of its table returns rows, carries the database of the
\* call, and carries the name it was requested for (the name the describe
\* statement addressed).
C7_ColumnsMatchDescribe ==
    \A p \in Calls :
        ListTablesReturned(p) =>
            \A i \in 1..Len(result[p].items) :
                result[p].items[i].t = "table" =>
                    /\ result[p].items[i].database = args[p].database
                    /\ result[p].items[i].name = work[p].table_names[i]
                    /\ Addressed(args[p].database, PyFormat(result[p].items[i].name))
                          = {Reported(p)[i]}
                    /\ result[p].items[i].columns.t = "list"
                    /\ Len(result[p].items[i].columns.items)
                          = Len(FieldsOf(Reported(p)[i]))

C7_Witness ==
    /\ ListTablesReturned(1)
    /\ \E i \in 1..Len(result[1].items) :
          /\ result[1].items[i].t = "table"
          /\ Reported(1)[i] = "users"
          /\ Len(result[1].items[i].columns.items) = 3

====
